---- MODULE Spec2Model ----
(***************************************************************************)
(* Model of src/bot.js: the wallet batch runner.  Strings the code         *)
(* transforms (seed lines, wallet versions, file lines) are sequences of   *)
(* one-character strings so that trim, split and toLowerCase are computed. *)
(* The platform services and the key-derivation library are external: each *)
(* call to them is a nondeterministic choice over the outcomes a call can  *)
(* have (truthy result, falsy result, exception).                          *)
(***************************************************************************)
EXTENDS Integers, Sequences, FiniteSets, TLC

VARIABLES pc, platform, version, walletData, queryIds, loadErr, rlClosed,
          action, batches, i, successCount, failCount, totalBalance,
          log, derivations, probe, mainError, delayMs

vars == <<pc, platform, version, walletData, queryIds, loadErr, rlClosed,
          action, batches, i, successCount, failCount, totalBalance,
          log, derivations, probe, mainError, delayMs>>

\* ---------------------------------------------------------------- bounds
MaxAccounts == 2      \* lines per input file
MaxBatches == 2       \* processWallets calls per run

\* ------------------------------------------------------ program constants
DEFAULT_WALLET_ID == 698983191
SeedWords == 24
DelayMin == 1000
DelayMax == 3000
DelaySpan == DelayMax - DelayMin + 1

NULL == <<"null">>
WhiteSpace == {" ", "\t", "\r"}

\* ------------------------------------------------------- string helpers
RECURSIVE TrimLeft(_)
TrimLeft(s) ==
    IF s = <<>> THEN s
    ELSE IF Head(s) \in WhiteSpace THEN TrimLeft(Tail(s)) ELSE s

RECURSIVE TrimRight(_)
TrimRight(s) ==
    IF s = <<>> THEN s
    ELSE IF s[Len(s)] \in WhiteSpace THEN TrimRight(SubSeq(s, 1, Len(s) - 1))
    ELSE s

Trim(s) == TrimRight(TrimLeft(s))

RECURSIVE SplitRec(_, _)
SplitRec(s, cur) ==
    IF s = <<>> THEN <<cur>>
    ELSE IF Head(s) = " " THEN <<cur>> \o SplitRec(Tail(s), <<>>)
    ELSE SplitRec(Tail(s), Append(cur, Head(s)))

Split(s) == SplitRec(s, <<>>)

LowerChar(c) ==
    CASE c = "V" -> "v"
      [] c = "R" -> "r"
      [] OTHER -> c

ToLowerCase(s) == [k \in 1..Len(s) |-> LowerChar(s[k])]

RECURSIVE ParseDigits(_, _)
ParseDigits(s, acc) ==
    IF s = <<>> THEN acc
    ELSE ParseDigits(Tail(s),
           acc * 10 + (CASE Head(s) = "0" -> 0 [] Head(s) = "1" -> 1
                         [] Head(s) = "2" -> 2 [] Head(s) = "3" -> 3
                         [] Head(s) = "4" -> 4 [] Head(s) = "5" -> 5
                         [] Head(s) = "6" -> 6 [] Head(s) = "7" -> 7
                         [] Head(s) = "8" -> 8 [] OTHER -> 9))

ParseFloat(s) == ParseDigits(s, 0)

RECURSIVE Words(_)
Words(n) == IF n <= 1 THEN <<"w">> ELSE Words(n - 1) \o <<" ", "w">>

\* ------------------------------------------------------------ input sets
V3R2 == <<"v", "3", "r", "2">>
V4 == <<"v", "4">>
V5 == <<"v", "5">>

Seed24 == Words(SeedWords)
SeedShort == Words(SeedWords - 1)
SeedLong == Words(SeedWords + 1)
SeedPadded == <<" ">> \o Seed24 \o <<" ", "\r">>
SeedDoubleSpace == Words(12) \o <<" ", " ">> \o Words(12)
SeedUnusable == Words(SeedWords - 1) \o <<" ", "x">>

BlankLine == <<" ">>
SeedFileLines == {Seed24, SeedLong, SeedUnusable, BlankLine}
WalletFileLines == {<<"U", "Q">>, <<" ", "U", "Q", "\r">>, BlankLine}
QueryFileLines == {<<"q">>, BlankLine}

FilesOf(lines) == UNION {[1..n -> lines] : n \in 0..MaxAccounts}

MenuInputs == {"0", "1", "2", "3", "9"}
PlatformInputs == {"1", "2", "3", "4", "9"}
VersionInputs == {"1", "2", "3", "9"}
PostInputs == {"1", "2", "9"}

LoginOutcomes == {"token", "falsy", "throw"}
InitOutcomes == {"ok", "falsy", "throw"}
CallOutcomes == {"true", "false", "throw"}
BalanceOutcomes == {"nofunc", "null", "info", "throw"}
BalanceInputs == {<<"7">>}
RandomNumerators == {0, DelaySpan - 1}

ProbeVersions ==
    {V3R2, <<"V", "3", "R", "2">>, <<"V", "3", "r", "2">>, <<"v", "3", "R", "2">>,
     V4, <<"V", "4">>, V5, <<"V", "5">>,
     <<"v", "1">>, <<"v", "3">>, <<"v", "5", "r", "1">>, <<"v", " ", "4">>,
     <<>>, NULL}
ProbeSeeds == {Seed24, SeedShort, SeedLong, SeedPadded, SeedDoubleSpace,
               SeedUnusable}

\* ------------------------------------------------------- pure functions
NoWallet == [contract |-> "none", workchain |-> -1, walletId |-> -1]

\* mnemonicToWalletKey of @ton/crypto is a deterministic library function: it
\* gives the same outcome each time it is called on the same words.  The word
\* "x" stands for whatever makes the library throw.
mnemonicToWalletKey(mnemonic) ==
    IF \E k \in 1..Len(mnemonic) : mnemonic[k] = <<"x">> THEN "throw" ELSE "ok"

\* Variant: the switch compares the version as typed, without toLowerCase().
getWalletAddressFromSeed_CaseSensitive(mnemonic, ver) ==
    IF mnemonicToWalletKey(mnemonic) = "throw" \/ ver = NULL
    THEN [status |-> "error", keyCalls |-> 1, wallet |-> NoWallet]
    ELSE IF ver \in {V3R2, V4, V5}
    THEN [status |-> "ok", keyCalls |-> 1,
          wallet |-> [contract |-> (CASE ver = V3R2 -> "WalletContractV3R2"
                                      [] ver = V4 -> "WalletContractV4"
                                      [] OTHER -> "WalletContractV5R1"),
                      workchain |-> 0,
                      walletId |-> DEFAULT_WALLET_ID]]
    ELSE [status |-> "error", keyCalls |-> 1, wallet |-> NoWallet]

\* getWalletAddressFromSeed: the wallet whose address is returned, or error.
\* keyCalls counts the mnemonicToWalletKey calls made.
getWalletAddressFromSeed(mnemonic, ver) ==
    IF mnemonicToWalletKey(mnemonic) = "throw"
    THEN [status |-> "error", keyCalls |-> 1, wallet |-> NoWallet]
    ELSE IF ver = NULL
    THEN [status |-> "error", keyCalls |-> 1, wallet |-> NoWallet]
    ELSE LET v == ToLowerCase(ver)
             workchain == 0
         IN CASE v = V3R2 ->
                   [status |-> "ok", keyCalls |-> 1,
                    wallet |-> [contract |-> "WalletContractV3R2",
                                workchain |-> workchain,
                                walletId |-> DEFAULT_WALLET_ID]]
              [] v = V4 ->
                   [status |-> "ok", keyCalls |-> 1,
                    wallet |-> [contract |-> "WalletContractV4",
                                workchain |-> workchain,
                                walletId |-> DEFAULT_WALLET_ID]]
              [] v = V5 ->
                   [status |-> "ok", keyCalls |-> 1,
                    wallet |-> [contract |-> "WalletContractV5R1",
                                workchain |-> workchain,
                                walletId |-> DEFAULT_WALLET_ID]]
              [] OTHER ->
                   [status |-> "error", keyCalls |-> 1, wallet |-> NoWallet]

\* Variant: the length test is "< 24" instead of "!== 24".
processWalletData_AtLeast24(wd, ver) ==
    LET mnemonicArray == Split(Trim(wd.mnemonic))
    IN IF Len(mnemonicArray) < SeedWords
       THEN [status |-> "error", keyCalls |-> 0, wallet |-> NoWallet]
       ELSE IF mnemonicToWalletKey(mnemonicArray) = "throw"
       THEN [status |-> "error", keyCalls |-> 1, wallet |-> NoWallet]
       ELSE LET a == getWalletAddressFromSeed(mnemonicArray, ver)
            IN [status |-> a.status, keyCalls |-> 1 + a.keyCalls, wallet |-> a.wallet]

\* processWalletData: keyCalls counts the mnemonicToWalletKey calls made.
processWalletData(wd, ver) ==
    LET mnemonicArray == Split(Trim(wd.mnemonic))
    IN IF Len(mnemonicArray) # SeedWords
       THEN [status |-> "error", keyCalls |-> 0, wallet |-> NoWallet]
       ELSE IF mnemonicToWalletKey(mnemonicArray) = "throw"
       THEN [status |-> "error", keyCalls |-> 1, wallet |-> NoWallet]
       ELSE LET a == getWalletAddressFromSeed(mnemonicArray, ver)
            IN [status |-> a.status, keyCalls |-> 1 + a.keyCalls, wallet |-> a.wallet]

selectPlatform(input) ==
    CASE input = "2" -> "yescoin"
      [] input = "3" -> "tsubasa"
      [] input = "4" -> "paws"
      [] OTHER -> "blum"

selectWalletVersion(input) ==
    CASE input = "1" -> V3R2
      [] input = "2" -> V4
      [] input = "3" -> V5
      [] OTHER -> V4

NonBlank(lines) == SelectSeq(lines, LAMBDA l : Trim(l) # <<>>)

\* Variant: the wallet and query counts are not compared.
loadData_NoMismatchCheck(plat, readable, walletFile, queryFile) ==
    LET wallets == NonBlank(walletFile)
        ids == NonBlank(queryFile)
    IN IF ~readable
       THEN [ok |-> FALSE, err |-> "read", walletData |-> <<>>, queryIds |-> <<>>]
       ELSE IF plat = "paws"
       THEN [ok |-> TRUE, err |-> "none",
             walletData |-> [k \in 1..Len(wallets) |-> [address |-> Trim(wallets[k])]],
             queryIds |-> ids]
       ELSE [ok |-> TRUE, err |-> "none",
             walletData |-> [k \in 1..Len(wallets) |-> [mnemonic |-> wallets[k]]],
             queryIds |-> ids]

\* loadData: null (ok = FALSE) on a read error or a count mismatch.
loadData(plat, readable, walletFile, queryFile) ==
    LET wallets == NonBlank(walletFile)
        ids == NonBlank(queryFile)
    IN IF ~readable
       THEN [ok |-> FALSE, err |-> "read", walletData |-> <<>>, queryIds |-> <<>>]
       ELSE IF Len(wallets) # Len(ids)
       THEN [ok |-> FALSE, err |-> "mismatch", walletData |-> <<>>, queryIds |-> <<>>]
       ELSE IF plat = "paws"
       THEN [ok |-> TRUE, err |-> "none",
             walletData |-> [k \in 1..Len(wallets) |-> [address |-> Trim(wallets[k])]],
             queryIds |-> ids]
       ELSE [ok |-> TRUE, err |-> "none",
             walletData |-> [k \in 1..Len(wallets) |-> [mnemonic |-> wallets[k]]],
             queryIds |-> ids]

\* ----------------------------------------------------------------- state
NoProbe == [fn |-> "none", version |-> <<>>, seed |-> <<>>,
            status |-> "none", keyCalls |-> 0, wallet |-> NoWallet]

Init ==
    /\ pc = "start"
    /\ platform = "none"
    /\ version = NULL
    /\ walletData = <<>>
    /\ queryIds = <<>>
    /\ loadErr = "unloaded"
    /\ rlClosed = FALSE
    /\ action = "none"
    /\ batches = 0
    /\ i = 0
    /\ successCount = 0
    /\ failCount = 0
    /\ totalBalance = 0
    /\ log = <<>>
    /\ derivations = {}
    /\ probe = NoProbe
    /\ mainError = "none"
    /\ delayMs = 0

dataVars == <<platform, version, walletData, queryIds, loadErr>>
batchVars == <<i, successCount, failCount, totalBalance, log, delayMs>>

\* ------------------------------------------------------------------ main
\* require.main === module: the program is run, not imported.
RunMain ==
    /\ pc = "start"
    /\ pc' = "selectPlatform"
    /\ UNCHANGED <<dataVars, batchVars, rlClosed, action, batches,
                   derivations, probe, mainError>>

\* main's catch and finally: report the error, close the readline interface.
Finally(err) ==
    /\ mainError' = err
    /\ rlClosed' = TRUE
    /\ pc' = "exited"

SelectPlatform ==
    /\ pc = "selectPlatform"
    /\ \E input \in PlatformInputs :
          /\ platform' = selectPlatform(input)
          /\ pc' = IF platform' = "paws" THEN "loadData" ELSE "selectVersion"
    /\ UNCHANGED <<version, walletData, queryIds, loadErr, batchVars, rlClosed,
                   action, batches, derivations, probe, mainError>>

SelectWalletVersion ==
    /\ pc = "selectVersion"
    /\ \E input \in VersionInputs : version' = selectWalletVersion(input)
    /\ pc' = "loadData"
    /\ UNCHANGED <<platform, walletData, queryIds, loadErr, batchVars, rlClosed,
                   action, batches, derivations, probe, mainError>>

LoadData ==
    /\ pc = "loadData"
    /\ \E readable \in BOOLEAN,
          walletFile \in FilesOf(IF platform = "paws" THEN WalletFileLines
                                                      ELSE SeedFileLines),
          queryFile \in FilesOf(QueryFileLines) :
          LET data == loadData(platform, readable, walletFile, queryFile)
          IN /\ loadErr' = data.err
             /\ walletData' = data.walletData
             /\ queryIds' = data.queryIds
             /\ IF data.ok
                THEN pc' = "mainMenu" /\ UNCHANGED <<rlClosed, mainError>>
                ELSE Finally("Failed to load data")
    /\ UNCHANGED <<platform, version, batchVars, action, batches,
                   derivations, probe>>

MainMenu ==
    /\ pc = "mainMenu"
    /\ \E input \in MenuInputs :
          /\ input \in {"1", "2", "3"} => batches < MaxBatches
          /\ action' = input
          /\ IF input = "0"
             THEN Finally("none") /\ UNCHANGED batches
             ELSE IF input \in {"1", "2", "3"}
             THEN /\ pc' = "processWallets"
                  /\ batches' = batches + 1
                  /\ UNCHANGED <<rlClosed, mainError>>
             ELSE /\ pc' = "mainMenu"
                  /\ UNCHANGED <<batches, rlClosed, mainError>>
    /\ UNCHANGED <<dataVars, batchVars, derivations, probe>>

PostAction ==
    /\ pc = "postAction"
    /\ \E input \in PostInputs :
          IF input = "2"
          THEN Finally("none")
          ELSE pc' = "mainMenu" /\ UNCHANGED <<rlClosed, mainError>>
    /\ UNCHANGED <<dataVars, batchVars, action, batches, derivations, probe>>

\* -------------------------------------------------------- processWallets
Ev(call, res) == [acct |-> i, call |-> call, res |-> res]

ServiceClass(plat) ==
    CASE plat = "paws" -> "PawsService"
      [] plat = "yescoin" -> "YesCoinService"
      [] plat = "tsubasa" -> "TsubasaService"
      [] OTHER -> "BlumService"

LoginCall(plat) == IF plat = "blum" THEN "getNewToken" ELSE "login"

\* Only the paws branch tests the value service.init returned.
InitChecked(plat) == plat = "paws"

\* The header line calls version.toUpperCase() unless the platform is paws.
HeaderThrows == platform # "paws" /\ version = NULL

\* Variant: the counters are not reset when a batch starts.
InitCounters_Carried == UNCHANGED <<totalBalance, successCount, failCount>>

\* let totalBalance = 0; let successCount = 0; let failCount = 0;
InitCounters ==
    /\ totalBalance' = 0
    /\ successCount' = 0
    /\ failCount' = 0

ProcessWalletsEnter ==
    /\ pc = "processWallets"
    /\ IF HeaderThrows
       THEN /\ Finally("processWallets")
            /\ UNCHANGED batchVars
       ELSE /\ InitCounters
            /\ i' = 0
            /\ log' = <<>>
            /\ pc' = "loop"
            /\ UNCHANGED delayMs
            /\ UNCHANGED <<rlClosed, mainError>>
    /\ UNCHANGED <<dataVars, action, batches, derivations, probe>>

\* for (let i = 0; i < queryIds.length; i++)
ForTest ==
    /\ pc = "loop"
    /\ pc' = IF i < Len(queryIds) THEN "prepare" ELSE "summary"
    /\ UNCHANGED <<dataVars, batchVars, rlClosed, action, batches,
                   derivations, probe, mainError>>

\* A step completed and the iteration goes on at pc value next.
Proceed(evs, next) ==
    /\ log' = log \o evs
    /\ pc' = next
    /\ UNCHANGED <<i, successCount, failCount, totalBalance, delayMs>>

\* Variant: an early "continue" that forgets failCount++.
ContinueFailed_NoCount(evs) ==
    /\ log' = log \o evs
    /\ i' = i + 1
    /\ pc' = "loop"
    /\ UNCHANGED <<successCount, failCount, totalBalance, delayMs>>

\* failCount++; continue;
ContinueFailed(evs) ==
    /\ log' = log \o evs \o <<Ev("failCount++", "")>>
    /\ failCount' = failCount + 1
    /\ i' = i + 1
    /\ pc' = "loop"
    /\ UNCHANGED <<successCount, totalBalance, delayMs>>

\* Variant: the catch block retries the account (i is not advanced).
Catch_Retry(evs) ==
    /\ log' = log \o evs \o <<Ev("failCount++", "")>>
    /\ failCount' = failCount + 1
    /\ i' = i
    /\ pc' = "loop"
    /\ UNCHANGED <<successCount, totalBalance, delayMs>>

\* catch (error) { failCount++; }
Catch(evs) ==
    /\ log' = log \o evs \o <<Ev("failCount++", "")>>
    /\ failCount' = failCount + 1
    /\ i' = i + 1
    /\ pc' = "loop"
    /\ UNCHANGED <<successCount, totalBalance, delayMs>>

\* if (i < queryIds.length - 1)
DelayDue == i < Len(queryIds) - 1

\* Math.floor(Math.random() * (3000 - 1000 + 1)) + 1000, random = r / DelaySpan
DelayMs(r) == ((r * DelaySpan) \div DelaySpan) + DelayMin

\* The connect/disconnect/display branch ran to its end: count, then start
\* the timer of the delay if another account follows.
AfterAction(evs, counted, balance) ==
    /\ log' = log \o evs \o <<Ev(counted, "")>>
    /\ successCount' = IF counted = "successCount++" THEN successCount + 1
                                                     ELSE successCount
    /\ failCount' = IF counted = "failCount++" THEN failCount + 1 ELSE failCount
    /\ totalBalance' = totalBalance + balance
    /\ IF DelayDue
       THEN /\ \E r \in RandomNumerators : delayMs' = DelayMs(r)
            /\ pc' = "delay"
            /\ i' = i
       ELSE /\ pc' = "loop"
            /\ i' = i + 1
            /\ UNCHANGED delayMs

Prepare ==
    /\ pc = "prepare"
    /\ IF platform = "paws"
       THEN /\ IF walletData[i + 1].address = <<>>
               THEN ContinueFailed(<<>>)
               ELSE Proceed(<<>>, "login")
            /\ UNCHANGED derivations
       ELSE LET r == processWalletData(walletData[i + 1], version)
                evs == [k \in 1..r.keyCalls |->
                          Ev("mnemonicToWalletKey",
                             IF r.status = "ok" THEN "ok" ELSE "throw")]
                       \o <<Ev("processWalletData", r.status)>>
            IN IF r.status = "ok"
               THEN /\ derivations' = derivations \cup
                          {[batch |-> batches, version |-> version,
                            wallet |-> r.wallet]}
                    /\ Proceed(evs, IF platform = "tsubasa" THEN "init" ELSE "login")
               ELSE /\ Catch(evs)
                    /\ UNCHANGED derivations
    /\ UNCHANGED <<dataVars, rlClosed, action, batches, probe, mainError>>

Login ==
    /\ pc = "login"
    /\ \E out \in LoginOutcomes :
          LET evs == <<Ev("new", ServiceClass(platform)),
                       Ev(LoginCall(platform), out)>>
          IN CASE out = "throw" -> Catch(evs)
               [] out = "falsy" -> ContinueFailed(evs)
               [] OTHER -> Proceed(evs, "init")
    /\ UNCHANGED <<dataVars, rlClosed, action, batches, derivations, probe,
                   mainError>>

InitService ==
    /\ pc = "init"
    /\ \E out \in InitOutcomes :
          LET evs == (IF platform = "tsubasa"
                      THEN <<Ev("new", ServiceClass(platform))>> ELSE <<>>)
                     \o <<Ev("init", out)>>
          IN CASE out = "throw" -> Catch(evs)
               [] out = "falsy" /\ InitChecked(platform) -> ContinueFailed(evs)
               [] OTHER -> Proceed(evs, "act")
    /\ UNCHANGED <<dataVars, rlClosed, action, batches, derivations, probe,
                   mainError>>

\* Variant: the two branches of "if (connected)" are swapped.
Connected_Swapped(evs) ==
    IF platform = "blum"
    THEN Proceed(evs, "balance")
    ELSE AfterAction(evs, "failCount++", 0)

\* What the connect branch does with a truthy result before the balance call.
Connected(evs) ==
    IF platform = "blum"
    THEN Proceed(evs, "balance")
    ELSE AfterAction(evs, "successCount++", 0)

Act ==
    /\ pc = "act"
    /\ IF action = "1"
       THEN \E out \in CallOutcomes :
              LET evs == <<Ev("connectWallet", out)>>
              IN CASE out = "throw" -> Catch(evs)
                   [] out = "true" -> Connected(evs)
                   [] OTHER -> AfterAction(evs, "failCount++", 0)
       ELSE IF action = "2"
       THEN \E out \in CallOutcomes :
              LET evs == <<Ev("disconnectWallet", out)>>
              IN CASE out = "throw" -> Catch(evs)
                   [] out = "true" -> AfterAction(evs, "successCount++", 0)
                   [] OTHER -> AfterAction(evs, "failCount++", 0)
       ELSE AfterAction(<<>>, "successCount++", 0)
    /\ UNCHANGED <<dataVars, rlClosed, action, batches, derivations, probe,
                   mainError>>

\* if (platform === "blum" && typeof service.getBalance === 'function') ...
Balance ==
    /\ pc = "balance"
    /\ \E out \in BalanceOutcomes, availableBalance \in BalanceInputs :
          CASE out = "nofunc" -> AfterAction(<<>>, "successCount++", 0)
            [] out = "null" ->
                 AfterAction(<<Ev("getBalance", out)>>, "successCount++", 0)
            [] out = "info" ->
                 AfterAction(<<Ev("getBalance", out)>>, "successCount++",
                             ParseFloat(availableBalance))
            [] OTHER -> Catch(<<Ev("getBalance", out)>>)
    /\ UNCHANGED <<dataVars, rlClosed, action, batches, derivations, probe,
                   mainError>>

\* The timer fires and the awaited promise resolves.
Delay ==
    /\ pc = "delay"
    /\ log' = log \o <<Ev("setTimeout", "")>>
    /\ delayMs' = 0
    /\ i' = i + 1
    /\ pc' = "loop"
    /\ UNCHANGED <<dataVars, successCount, failCount, totalBalance, rlClosed,
                   action, batches, derivations, probe, mainError>>

\* Print the summary and return {successCount, failCount, totalBalance}.
Summary ==
    /\ pc = "summary"
    /\ pc' = "postAction"
    /\ log' = <<>>
    /\ UNCHANGED <<dataVars, i, successCount, failCount, totalBalance, delayMs,
                   rlClosed, action, batches, derivations, probe, mainError>>

\* ------------------------------------------------- the module's exports
\* The module imported by other code: main does not run, the exported
\* functions are called directly.
ImportGetWalletAddressFromSeed ==
    /\ pc \in {"start", "imported"}
    /\ \E ver \in ProbeVersions, seed \in {Seed24, SeedUnusable} :
          LET r == getWalletAddressFromSeed(Split(seed), ver)
          IN probe' = [fn |-> "getWalletAddressFromSeed", version |-> ver,
                       seed |-> seed,
                       status |-> r.status,
                       keyCalls |-> r.keyCalls, wallet |-> r.wallet]
    /\ pc' = "imported"
    /\ UNCHANGED <<dataVars, batchVars, rlClosed, action, batches,
                   derivations, mainError>>

ImportProcessWalletData ==
    /\ pc \in {"start", "imported"}
    /\ \E ver \in ProbeVersions, seed \in ProbeSeeds :
          LET r == processWalletData([mnemonic |-> seed], ver)
          IN probe' = [fn |-> "processWalletData", version |-> ver,
                       seed |-> seed,
                       status |-> r.status,
                       keyCalls |-> r.keyCalls, wallet |-> r.wallet]
    /\ pc' = "imported"
    /\ UNCHANGED <<dataVars, batchVars, rlClosed, action, batches,
                   derivations, mainError>>

Next ==
    \/ RunMain
    \/ SelectPlatform
    \/ SelectWalletVersion
    \/ LoadData
    \/ MainMenu
    \/ PostAction
    \/ ProcessWalletsEnter
    \/ ForTest
    \/ Prepare
    \/ Login
    \/ InitService
    \/ Act
    \/ Balance
    \/ Delay
    \/ Summary
    \/ ImportGetWalletAddressFromSeed
    \/ ImportProcessWalletData

Spec == Init /\ [][Next]_vars

\* ================================================================ claims
Accounts == 0..(Len(queryIds) - 1)
AtReturn == pc = "summary"
BatchPcs == {"processWallets", "loop", "prepare", "login", "init", "act",
             "balance", "delay", "summary"}
CountCalls == {"successCount++", "failCount++"}
LoginCalls == {"login", "getNewToken"}
WalletCalls == {"connectWallet", "disconnectWallet"}
ServiceCalls == LoginCalls \cup WalletCalls \cup {"new", "init", "getBalance"}

CountEv(a, calls) ==
    Cardinality({k \in 1..Len(log) : log[k].acct = a /\ log[k].call \in calls})
HasEv(a, calls, results) ==
    \E k \in 1..Len(log) :
        log[k].acct = a /\ log[k].call \in calls /\ log[k].res \in results

\* C1: when processWallets returns, successCount + failCount equals
\* queryIds.length and every account was counted exactly once, as a success
\* or as a failure.
C1_EachAccountCountedOnce ==
    AtReturn =>
        /\ successCount + failCount = Len(queryIds)
        /\ \A a \in Accounts : CountEv(a, CountCalls) = 1
        /\ successCount =
             Cardinality({a \in Accounts : CountEv(a, {"successCount++"}) = 1})
        /\ failCount =
             Cardinality({a \in Accounts : CountEv(a, {"failCount++"}) = 1})

C1_Witness ==
    /\ AtReturn
    /\ Len(queryIds) = 2
    /\ successCount = 1
    /\ failCount = 1
    /\ HasEv(0, LoginCalls, {"falsy"})
    /\ HasEv(1, {"connectWallet"}, {"true"})

\* C2: a delay of 1000..3000 ms is waited after every account but the last,
\* whatever the account's outcome, and none after the last account.
C2_DelayBetweenAllAccounts ==
    /\ pc = "delay" => delayMs >= 1000 /\ delayMs <= 3000
    /\ AtReturn =>
          \A a \in Accounts :
              IF a < Len(queryIds) - 1
              THEN CountEv(a, {"setTimeout"}) = 1
              ELSE CountEv(a, {"setTimeout"}) = 0

\* C3: connectWallet or disconnectWallet is called for an account only after
\* its login/token call returned a token (paws, yescoin, blum) and after its
\* init call succeeded.
C3_LoginInitBeforeConnect ==
    \A k \in 1..Len(log) :
        log[k].call \in WalletCalls =>
            /\ platform \in {"paws", "yescoin", "blum"} =>
                 \E j \in 1..(k - 1) :
                     /\ log[j].acct = log[k].acct
                     /\ log[j].call \in LoginCalls
                     /\ log[j].res = "token"
            /\ \E j \in 1..(k - 1) :
                     /\ log[j].acct = log[k].acct
                     /\ log[j].call = "init"
                     /\ log[j].res = "ok"

\* C4: accounts are handled one after the other in increasing index order,
\* with at most one login/token call and at most one connect/disconnect call
\* per account in a batch.
C4_SequentialNoRetry ==
    /\ \A k \in 1..(Len(log) - 1) : log[k].acct <= log[k + 1].acct
    /\ \A k \in 1..Len(log) : log[k].acct <= i /\ log[k].acct \in Accounts
    /\ \A a \in Accounts :
          /\ CountEv(a, LoginCalls) <= 1
          /\ CountEv(a, WalletCalls) <= 1
          /\ CountEv(a, {"init"}) <= 1
    /\ AtReturn => /\ i = Len(queryIds)
                   /\ \A a \in Accounts : CountEv(a, CountCalls) >= 1

C4_Witness ==
    /\ AtReturn
    /\ Len(queryIds) = 2
    /\ \A a \in Accounts : /\ CountEv(a, LoginCalls) = 1
                           /\ CountEv(a, WalletCalls) = 1

\* C5: every wallet derived in a run uses the version chosen in main,
\* workchain 0 and wallet id 698983191; getWalletAddressFromSeed succeeds
\* exactly for the spellings of v3r2, v4 and v5 in either case.
AcceptedSpellings ==
    {<<"v", "3", "r", "2">>, <<"V", "3", "R", "2">>, <<"V", "3", "r", "2">>,
     <<"v", "3", "R", "2">>, <<"v", "4">>, <<"V", "4">>, <<"v", "5">>,
     <<"V", "5">>}

ContractOf(ver) ==
    CASE ver = <<"v", "3", "r", "2">> -> "WalletContractV3R2"
      [] ver = <<"v", "4">> -> "WalletContractV4"
      [] ver = <<"v", "5">> -> "WalletContractV5R1"
      [] OTHER -> "none"

C5_FixedVersionWorkchainWalletId ==
    /\ \A d \in derivations :
          /\ d.version = version
          /\ d.wallet.contract = ContractOf(version)
          /\ d.wallet.contract # "none"
          /\ d.wallet.workchain = 0
          /\ d.wallet.walletId = 698983191
    /\ platform = "paws" => version = NULL /\ derivations = {}
    /\ probe.fn = "getWalletAddressFromSeed" =>
          /\ probe.status = "ok" <=>
                (probe.version \in AcceptedSpellings /\ probe.seed = Seed24)
          /\ probe.status # "ok" => probe.status = "error" /\ probe.wallet = NoWallet
          /\ probe.status = "ok" =>
                /\ probe.wallet.workchain = 0
                /\ probe.wallet.walletId = 698983191

C5_Witness ==
    /\ AtReturn
    /\ batches = 2
    /\ \E d1, d2 \in derivations : d1.batch = 1 /\ d2.batch = 2
    /\ version = V5

\* C6: every processWallets call starts its counters at 0, leaves queryIds,
\* walletData, version and platform unchanged, and returns counts that are
\* those of its own accounts only.
SuccessesInLog ==
    Cardinality({k \in 1..Len(log) : log[k].call = "successCount++"})
FailuresInLog ==
    Cardinality({k \in 1..Len(log) : log[k].call = "failCount++"})
BalancesInLog ==
    Cardinality({k \in 1..Len(log) :
                    log[k].call = "getBalance" /\ log[k].res = "info"})

C6_NoStateCarriedBetweenBatches ==
    [][/\ (pc = "processWallets" /\ pc' = "loop") =>
             successCount' = 0 /\ failCount' = 0 /\ totalBalance' = 0
       /\ pc \in BatchPcs =>
             UNCHANGED <<queryIds, walletData, version, platform>>
       /\ pc' = "summary" =>
             /\ successCount' = SuccessesInLog'
             /\ failCount' = FailuresInLog'
             /\ BalancesInLog' = 0 => totalBalance' = 0]_vars

C6_Witness ==
    /\ AtReturn
    /\ batches = 2
    /\ Len(queryIds) = 2
    /\ successCount = 1
    /\ failCount = 1

\* C7: an account with a step that throws or fails is counted as failed, every
\* account of the batch is still processed, and processWallets returns its
\* summary without propagating an exception.
C7_FailureNeverAbortsBatch ==
    /\ mainError # "processWallets"
    /\ AtReturn =>
          \A a \in Accounts :
              /\ CountEv(a, CountCalls) = 1
              /\ HasEv(a, ServiceCalls \cup {"processWalletData", "mnemonicToWalletKey"},
                       {"throw", "falsy", "false", "error"})
                    => CountEv(a, {"failCount++"}) = 1

\* C8 as stated: in a connect batch an account is a success exactly when its
\* connectWallet call returned a truthy value, in a disconnect batch exactly
\* when its disconnectWallet call did.
C8_SuccessIffCallTruthy ==
    AtReturn =>
        \A a \in Accounts :
            /\ action = "1" =>
                 (CountEv(a, {"successCount++"}) = 1
                    <=> HasEv(a, {"connectWallet"}, {"true"}))
            /\ action = "2" =>
                 (CountEv(a, {"successCount++"}) = 1
                    <=> HasEv(a, {"disconnectWallet"}, {"true"}))

\* C8 amended: in a connect batch an account is a success exactly when its
\* connectWallet call returned a truthy value and no getBalance call made for
\* it afterwards threw; in a disconnect batch exactly when its
\* disconnectWallet call returned a truthy value.
C8_SuccessIffCallTruthyAndBalanceRead ==
    AtReturn =>
        \A a \in Accounts :
            /\ action = "1" =>
                 (CountEv(a, {"successCount++"}) = 1
                    <=> /\ HasEv(a, {"connectWallet"}, {"true"})
                        /\ ~HasEv(a, {"getBalance"}, {"throw"}))
            /\ action = "2" =>
                 (CountEv(a, {"successCount++"}) = 1
                    <=> HasEv(a, {"disconnectWallet"}, {"true"}))

C8_Witness ==
    /\ AtReturn
    /\ action = "1"
    /\ platform = "blum"
    /\ Len(queryIds) = 2
    /\ HasEv(0, {"connectWallet"}, {"true"})
    /\ HasEv(0, {"getBalance"}, {"throw"})
    /\ HasEv(1, {"connectWallet"}, {"true"})
    /\ successCount = 1
    /\ failCount = 1

\* C9: on blum, yescoin and tsubasa an account whose seed line does not split
\* into 24 words is rejected before any key derivation, is counted as failed
\* and gets no service object and no service call; on paws processWalletData
\* is never called.
BadSeed(s) == Len(Split(Trim(s))) # 24

C9_BadSeedRejectedBeforeDerivation ==
    /\ (platform \in {"blum", "yescoin", "tsubasa"} /\ pc \in BatchPcs) =>
          \A a \in Accounts :
              BadSeed(walletData[a + 1].mnemonic) =>
                  /\ CountEv(a, ServiceCalls \cup {"mnemonicToWalletKey"}) = 0
                  /\ CountEv(a, {"successCount++"}) = 0
                  /\ (a < i /\ pc # "processWallets") =>
                        /\ HasEv(a, {"processWalletData"}, {"error"})
                        /\ CountEv(a, {"failCount++"}) = 1
    /\ platform = "paws" =>
          \A k \in 1..Len(log) :
              log[k].call \notin {"processWalletData", "mnemonicToWalletKey"}
    /\ (probe.fn = "processWalletData" /\ BadSeed(probe.seed)) =>
          probe.status = "error" /\ probe.keyCalls = 0

C9_Witness ==
    /\ AtReturn
    /\ platform = "tsubasa"
    /\ Len(queryIds) = 2
    /\ walletData[1].mnemonic = SeedLong
    /\ walletData[2].mnemonic = Seed24
    /\ HasEv(0, {"processWalletData"}, {"error"})
    /\ HasEv(1, {"connectWallet"}, {"true"})
    /\ failCount = 1

\* C10: a batch runs only after loadData succeeded with as many wallets as
\* query ids and only for the menu choices 1, 2 and 3; a failed load ends the
\* run with no batch, choice 0 exits, any other input shows the menu again,
\* and every exit closes the readline interface.
C10_BatchOnlyAfterLoadAndChoice ==
    [][/\ pc' \in BatchPcs =>
             /\ loadErr' = "none"
             /\ Len(walletData') = Len(queryIds')
             /\ action' \in {"1", "2", "3"}
       /\ loadErr' \in {"read", "mismatch"} => pc' = "exited" /\ batches' = 0
       /\ pc' = "exited" => rlClosed'
       /\ (pc = "mainMenu" /\ action' = "0") =>
             pc' = "exited" /\ batches' = batches
       /\ (pc = "mainMenu" /\ action' \notin {"0", "1", "2", "3"}) =>
             pc' = "mainMenu" /\ batches' = batches
       /\ batches' # batches =>
             pc = "mainMenu" /\ pc' = "processWallets"
                /\ action' \in {"1", "2", "3"}]_vars

C10_Witness ==
    /\ pc = "exited"
    /\ rlClosed
    /\ batches = 2
    /\ Len(queryIds) = 2
    /\ Len(walletData) = 2
    /\ action = "0"

====
